---- MODULE Spec2Model ----
(***************************************************************************)
(* Model of the employee FAQ bot's answer-resolution handlers.             *)
(*                                                                         *)
(* Strings are sequences of characters; a character is a one-element token *)
(* ("a", " ", "?") or, for characters outside ASCII, its code point name   *)
(* ("U+00E9" is e-acute, "U+0301" the combining acute accent).             *)
(***************************************************************************)
EXTENDS Integers, Sequences, FiniteSets, TLC

(***************************************************************************)
(* Characters                                                              *)
(***************************************************************************)

\* String.prototype.toLowerCase on one character (the letters the inputs use)
toLowerCase(c) ==
  CASE c = "A" -> "a"
    [] c = "E" -> "e"
    [] c = "K" -> "k"
    [] c = "O" -> "o"
    [] c = "U+00C5" -> "U+00E5"
    [] c = "U+00C6" -> "U+00E6"
    [] c = "U+00D8" -> "U+00F8"
    [] c = "U+00C9" -> "U+00E9"
    [] OTHER -> c

\* canonical decomposition of one character (String.prototype.normalize("NFD"))
NFD(c) ==
  CASE c = "U+00E9" -> <<"e", "U+0301">>
    [] c = "U+00C9" -> <<"E", "U+0301">>
    [] c = "U+00E5" -> <<"a", "U+030A">>
    [] c = "U+00C5" -> <<"A", "U+030A">>
    [] OTHER -> <<c>>

\* compatibility decomposition ("NFKD"): NFD plus the no-break space
NFKD(c) == IF c = "U+00A0" THEN <<" ">> ELSE NFD(c)

\* the combining marks U+0300..U+036F
IsCombining(c) == c \in {"U+0301", "U+030A"}

\* the Unicode property Diacritic: the combining marks, and the spacing
\* circumflex and grave accent
IsDiacritic(c) == IsCombining(c) \/ c \in {"^", "GRAVE"}

\* the class \s, which is also what String.prototype.trim removes
IsWhite(c) == c \in {" ", "TAB", "U+00A0"}

\* the class \w
IsWord(c) ==
  c \in {"a","b","c","d","e","f","g","h","i","j","k","l","m","n","o","p","q",
         "r","s","t","u","v","w","x","y","z","A","E","K","O","0","1","_"}

\* the punctuation class of the Dice handler's normalize
IsDicePunct(c) == c \in {"?", "!", ".", ",", ":", ";", "GRAVE", "^", "-"}

(***************************************************************************)
(* String primitives                                                       *)
(***************************************************************************)

RECURSIVE FlatMapNFD(_), FlatMapNFKD(_)
FlatMapNFD(s) == IF s = <<>> THEN <<>> ELSE NFD(Head(s)) \o FlatMapNFD(Tail(s))

FlatMapNFKD(s) == IF s = <<>> THEN <<>> ELSE NFKD(Head(s)) \o FlatMapNFKD(Tail(s))

MapLower(s) == [i \in 1..Len(s) |-> toLowerCase(s[i])]

RECURSIVE TrimLeft(_), TrimRight(_)
TrimLeft(s) == IF s # <<>> /\ IsWhite(Head(s)) THEN TrimLeft(Tail(s)) ELSE s

TrimRight(s) ==
  IF s # <<>> /\ IsWhite(s[Len(s)]) THEN TrimRight(SubSeq(s, 1, Len(s) - 1)) ELSE s

\* String.prototype.trim
Trim(s) == TrimRight(TrimLeft(s))

\* .replace(/\s+/g, " ")
RECURSIVE CollapseWhite(_)
CollapseWhite(s) ==
  IF s = <<>> THEN <<>>
  ELSE IF IsWhite(Head(s))
       THEN <<" ">> \o CollapseWhite(TrimLeft(s))
       ELSE <<Head(s)>> \o CollapseWhite(Tail(s))

\* String.prototype.includes: t is a contiguous part of s (the empty t always is)
Includes(s, t) ==
  \E i \in 0..(Len(s) - Len(t)) : SubSeq(s, i + 1, i + Len(t)) = t

\* String.prototype.split(/\W+/): the maximal runs of word characters, with an
\* empty string where the input starts or ends with a separator
RECURSIVE SplitFrom(_, _)
SplitFrom(s, cur) ==
  IF s = <<>> THEN <<cur>>
  ELSE IF IsWord(Head(s)) THEN SplitFrom(Tail(s), Append(cur, Head(s)))
  ELSE LET i == CHOOSE k \in 1..(Len(s) + 1) :
                  /\ \A j \in 1..(k - 1) : ~IsWord(s[j])
                  /\ (k = Len(s) + 1 \/ IsWord(s[k]))
       IN  <<cur>> \o SplitFrom(SubSeq(s, i, Len(s)), <<>>)

SplitNonWord(s) == SplitFrom(s, <<>>)

\* the elements of a sequence, as a set
Range(s) == {s[i] : i \in 1..Len(s)}

(***************************************************************************)
(* The normalizers of the handlers                                         *)
(***************************************************************************)

\* ask.js: NFKD, remove \p{Diacritic}, lower-case, trim
normalizeAsk(s) ==
  Trim(MapLower(SelectSeq(FlatMapNFKD(s), LAMBDA c : ~IsDiacritic(c))))

\* fold the letters ae-ligature, o-slash and a-ring to "ae", "oe", "aa"
RECURSIVE FoldNordic(_)
FoldNordic(s) ==
  IF s = <<>> THEN <<>>
  ELSE (CASE Head(s) = "U+00E6" -> <<"a", "e">>
          [] Head(s) = "U+00F8" -> <<"o", "e">>
          [] Head(s) = "U+00E5" -> <<"a", "a">>
          [] OTHER -> <<Head(s)>>) \o FoldNordic(Tail(s))

\* keyword handler: lower-case, NFD, remove combining marks, fold the Nordic
\* letters, collapse whitespace, trim
normalizeKw(s) ==
  Trim(CollapseWhite(FoldNordic(
    SelectSeq(FlatMapNFD(MapLower(s)), LAMBDA c : ~IsCombining(c)))))

\* Dice handler: lower-case, punctuation runs to a space, collapse whitespace, trim
normalizeDice(s) ==
  Trim(CollapseWhite(
    [i \in 1..Len(s) |-> IF IsDicePunct(toLowerCase(s[i])) THEN " " ELSE toLowerCase(s[i])]))

(***************************************************************************)
(* Similarity primitives                                                   *)
(***************************************************************************)

Min2(x, y) == IF x <= y THEN x ELSE y

Max2(x, y) == IF x >= y THEN x ELSE y

\* one row of the dp matrix: dp[i][0..n] from dp[i-1][0..n] (rows are 1-based
\* sequences, so row[j + 1] is dp[.][j]).  The tests on Len(acc) and Len(prev)
\* never hold; they make TLC compute each row before it starts the next.
RECURSIVE levRow(_, _, _, _, _)
levRow(prev, ai, b, j, acc) ==
  IF j > Len(b) \/ Len(acc) # j THEN acc
  ELSE LET cost == IF ai = b[j] THEN 0 ELSE 1
           v == Min2(Min2(prev[j + 1] + 1, acc[j] + 1), prev[j] + cost)
       IN  levRow(prev, ai, b, j + 1, Append(acc, v))

RECURSIVE levRows(_, _, _, _)
levRows(a, b, i, prev) ==
  IF i > Len(a) \/ Len(prev) # Len(b) + 1 THEN prev[Len(b) + 1]
  ELSE levRows(a, b, i + 1, levRow(prev, a[i], b, 1, <<i>>))

\* ask.js levenshtein: edit distance of the normalized strings
levenshtein(a0, b0) ==
  LET a == normalizeAsk(a0)
      b == normalizeAsk(b0)
  IN  IF Len(a) = 0 THEN Len(b)
      ELSE IF Len(b) = 0 THEN Len(a)
      ELSE levRows(a, b, 1, [j \in 1..(Len(b) + 1) |-> j - 1])

\* Math.ceil(n * 0.35), computed as ceil(35 n / 100)
CeilPct35(n) == (35 * n + 99) \div 100

\* the bigrams of a string with their multiplicities, as the set of positions
\* at which each starts
bigrams(str) ==
  [bg \in {SubSeq(str, i, i + 1) : i \in 1..(Len(str) - 1)} |->
     Cardinality({i \in 1..(Len(str) - 1) : SubSeq(str, i, i + 1) = bg})]

RECURSIVE SumOver(_, _)
SumOver(f, S) ==
  IF S = {} THEN 0
  ELSE LET x == CHOOSE y \in S : TRUE IN f[x] + SumOver(f, S \ {x})

\* diceCoefficient: a fraction [n, d] with d > 0
diceCoefficient(a0, b0) ==
  LET a == normalizeDice(a0)
      b == normalizeDice(b0)
  IN  IF a = <<>> \/ b = <<>> THEN [n |-> 0, d |-> 1]
      ELSE IF a = b THEN [n |-> 1, d |-> 1]
      ELSE LET A == bigrams(a)
               B == bigrams(b)
               inB(bg) == IF bg \in DOMAIN B THEN B[bg] ELSE 0
               ov == [bg \in DOMAIN A |-> Min2(A[bg], inB(bg))]
               overlap == SumOver(ov, DOMAIN A)
               sizeA == SumOver(A, DOMAIN A)
               sizeB == SumOver(B, DOMAIN B)
           IN  [n |-> 2 * overlap,
                d |-> IF sizeA + sizeB = 0 THEN 1 ELSE sizeA + sizeB]

\* comparison of fractions with positive denominators
FracGT(x, y) == x.n * y.d > y.n * x.d

FracGE(x, y) == x.n * y.d >= y.n * x.d

RECURSIVE DotFrom(_, _, _)
DotFrom(a, b, i) ==
  IF i > Len(a) THEN 0 ELSE a[i] * b[i] + DotFrom(a, b, i + 1)

dot(a, b) == DotFrom(a, b, 1)

Abs(x) == IF x < 0 THEN -x ELSE x

\* A cosine is kept as the fraction of its signed square: the value
\* sign(n) * sqrt(|n| / d).  x -> sign(x) * x^2 is increasing, so cosines compare
\* as these fractions do.
SignedSquare(x) == x * Abs(x)

\* ask.js cosSim: dot(a,b) / (mag(a)*mag(b) || 1)
cosSim(a, b) ==
  IF dot(a, a) * dot(b, b) = 0 THEN [n |-> 0, d |-> 1]
  ELSE [n |-> SignedSquare(dot(a, b)), d |-> dot(a, a) * dot(b, b)]

\* the number NaN, as the fraction with denominator 0
NaN == [n |-> 0, d |-> 0]

\* part_001 cosine: dot / (sqrt(na) * sqrt(nb)), NaN when a norm is zero
cosine(a, b) ==
  IF dot(a, a) * dot(b, b) = 0 THEN NaN
  ELSE [n |-> SignedSquare(dot(a, b)), d |-> dot(a, a) * dot(b, b)]

\* s > t and s >= t on numbers that may be NaN (every comparison with NaN is false)
NumGT(s, t) == s.d # 0 /\ t.d # 0 /\ FracGT(s, t)

NumGE(s, t) == s.d # 0 /\ t.d # 0 /\ FracGE(s, t)

(***************************************************************************)
(* Program constants                                                       *)
(***************************************************************************)

\* ask.js: best.score >= 0.27, in hundredths
ASK_MIN_SIMILARITY == 27

\* part_001: MIN_SIMILARITY = 0.70, in hundredths
MIN_SIMILARITY == 70

\* part_002: best.score >= 0.58, in hundredths
DICE_MIN_SCORE == 58

\* part_002: it.tNorm.length >= 5
MIN_CONTAINED_LEN == 5

\* part_001: CACHE_TTL_MS, five minutes in milliseconds
CACHE_TTL_MS == 5 * 60 * 1000

\* the synonym groups of the keyword handler
KEYWORD_GROUPS ==
  <<
    <<<<"r", "e", "k", "r", "u", "t", "t", "e", "r">>,
      <<"r", "e", "k", "r", "u", "t", "e", "r">>,
      <<"r", "e", "k", "r", "u", "t", "t">>,
      <<"k", "o", "n", "t", "a", "k", "t">>,
      <<"s", "p", "i", "l", "l", "e", "r", "e">>,
      <<"s", "p", "i", "l", "l", "e", "r">>>>,
    <<<<"k", "o", "n", "t", "o", "r">>,
      <<"a", "d", "r", "e", "s", "s", "e">>,
      <<"o", "f", "f", "i", "c", "e">>,
      <<"k", "o", "n", "t", "o", "r", "a", "d", "r", "e", "s", "s", "e">>>>,
    <<<<"m", "i", "s", "s", "i", "o", "n">>,
      <<"v", "i", "s", "i", "o", "n">>,
      <<"f", "o", "r", "m", "a", "a", "l">>,
      <<"f", "o", "r", "m", "U+00E5", "l">>,
      <<"p", "u", "r", "p", "o", "s", "e">>>>,
    <<<<"s", "t", "i", "p", "e", "n", "d", "i", "e", "r">>,
      <<"s", "c", "h", "o", "l", "a", "r", "s", "h", "i", "p">>,
      <<"s", "t", "i", "p", "e", "n", "d", "i", "u", "m">>>>,
    <<<<"c", "o", "l", "l", "e", "g", "e">>,
      <<"u", "n", "i", "v", "e", "r", "s", "i", "t", "e", "t">>,
      <<"u", "n", "i">>>>>>

KEYWORDS == UNION {Range(KEYWORD_GROUPS[g]) : g \in 1..Len(KEYWORD_GROUPS)}

\* the words the ask.js keyword fallback looks for in the query
CONTACT_WORDS == {<<"k", "o", "n", "t", "a", "k", "t">>, <<"s", "k", "r", "i", "v">>, <<"b", "e", "s", "k", "e", "d">>, <<"m", "e", "s", "s", "a", "g", "e">>}

RECRUIT_WORDS == {<<"r", "e", "k", "r", "u", "t">>, <<"r", "e", "c", "r", "u", "i", "t">>, <<"s", "p", "i", "l", "l">>, <<"s", "p", "i", "l", "l", "e", "r">>}

S_kontakt == <<"k", "o", "n", "t", "a", "k", "t">>

S_rekrut == <<"r", "e", "k", "r", "u", "t">>

S_recruit == <<"r", "e", "c", "r", "u", "i", "t">>

\* the fixed answers of the handlers
NOT_FOUND == "Sorry, I couldn't find an answer."

NO_CONFIDENT_MATCH == "I couldn't find a confident match in the handbook."

NO_QA_YET == "I don't have any Q&A yet in the Notion database."

BLANK == "(blank)"

(***************************************************************************)
(* Inputs: the queries a caller sends, the rows the store holds and the    *)
(* vectors the embedding service returns                                   *)
(***************************************************************************)

MaxRows == 2

MaxTicks == 2

NumProcs == 2

Q_empty == <<>>

Q_blank == <<" ">>

Q_kontakt == <<"k", "o", "n", "t", "a", "k", "t">>

Q_Kontakt_os == <<"K", "o", "n", "t", "a", "k", "t", " ", "o", "s">>

Q_os == <<"o", "s">>

Q_skriv == <<"s", "k", "r", "i", "v">>

Q_kontekt == <<"k", "o", "n", "t", "e", "k", "t">>

Q_qqqqqq == <<"q", "q", "q", "q", "q", "q">>

Q_uni == <<"u", "n", "i">>

Q_uni_kontakt == <<"u", "n", "i", " ", "k", "o", "n", "t", "a", "k", "t">>

Q_spiller_os == <<"s", "p", "i", "l", "l", "e", "r", " ", "o", "s">>

Queries ==
  {Q_empty, Q_blank, Q_kontakt, Q_Kontakt_os, Q_os, Q_skriv, Q_kontekt,
   Q_qqqqqq, Q_uni, Q_uni_kontakt, Q_spiller_os}

\* the rows of the store: the Question and Answer texts of a page, joined
Rows ==
  {[title |-> Q_Kontakt_os, answer |-> "A1"],
   [title |-> Q_kontakt, answer |-> "A2"],
   [title |-> <<"u", "n", "i", " ", "i", "n", "f", "o">>, answer |-> "A3"],
   [title |-> <<"k", "o", "n", "t", "a", "k", "t">>, answer |-> ""],
   [title |-> <<" ">>, answer |-> "A5"]}

RECURSIVE SeqsUpTo(_, _)
SeqsUpTo(S, n) ==
  IF n = 0 THEN {<<>>}
  ELSE LET shorter == SeqsUpTo(S, n - 1)
       IN  shorter \cup {Append(s, x) : s \in shorter, x \in S}

Stores == SeqsUpTo(Rows, MaxRows)

\* embedding vectors: against V_unit the cosines are 1, 0.27, 0.70 and about 0.24
V_unit == <<1, 0, 0, 0, 0>>

V_at27 == <<27, 95, 14, 7, 1>>

V_at70 == <<7, 7, 1, 1, 0>>

V_low == <<1, 4, 0, 0, 0>>

V_zero == <<0, 0, 0, 0, 0>>

ItemVectors == {V_unit, V_at27, V_at70, V_low}

QueryVectors == {V_unit, V_zero}

(***************************************************************************)
(* Matching stages.  A stage yields the index of the entry it accepts in   *)
(* the bank, or 0 when it rejects.                                         *)
(***************************************************************************)

\* Array.prototype.find, given which entries pass: the first index that does
FirstIndex(pass) ==
  IF \E i \in 1..Len(pass) : pass[i]
  THEN CHOOSE i \in 1..Len(pass) : pass[i] /\ \A j \in 1..(i - 1) : ~pass[j]
  ELSE 0

\* the fraction whose signed square root is pct / 100
FloorSquared(pct) == [n |-> pct * pct, d |-> 10000]

\* the keep-filter of getRows and of the keyword and Dice handlers: the texts
\* are trimmed and a row needs a title and an answer
BankOf(rows) ==
  SelectSeq([i \in 1..Len(rows) |->
               [title |-> Trim(rows[i].title), answer |-> rows[i].answer]],
            LAMBDA x : x.title # <<>> /\ x.answer # "")

\* ---- ask.js ------------------------------------------------------------

\* quick: the first entry whose normalized title contains the normalized
\* query or is contained in it
AskQuick(bank, qNorm) ==
  FirstIndex([i \in 1..Len(bank) |->
    LET t == normalizeAsk(bank[i].title) IN Includes(t, qNorm) \/ Includes(qNorm, t)])

\* the loop over the embedded bank: the first entry of the highest cosine
RECURSIVE AskBestCos(_, _, _, _)
AskBestCos(vecs, qe, i, best) ==
  IF i > Len(vecs) THEN best
  ELSE LET sc == cosSim(qe, vecs[i])
       IN  AskBestCos(vecs, qe, i + 1,
             IF FracGT(sc, best.score) THEN [score |-> sc, idx |-> i] ELSE best)

AskBest(vecs, qe) == AskBestCos(vecs, qe, 1, [score |-> [n |-> -1, d |-> 1], idx |-> 0])

\* AskSemantic with best.score > 0.27
AskSemantic_Strict(vecs, qe) ==
  LET best == AskBest(vecs, qe)
  IN  IF best.idx # 0 /\ FracGT(best.score, FloorSquared(ASK_MIN_SIMILARITY))
      THEN best.idx ELSE 0

\* best.item && best.score >= 0.27
AskSemantic(vecs, qe) ==
  LET best == AskBest(vecs, qe)
  IN  IF best.idx # 0 /\ FracGE(best.score, FloorSquared(ASK_MIN_SIMILARITY))
      THEN best.idx ELSE 0

\* contactHit, then recruitHit
AskKeyword(bank, ql) ==
  LET contact == IF \E w \in CONTACT_WORDS : Includes(ql, w)
                 THEN FirstIndex([i \in 1..Len(bank) |->
                        Includes(normalizeAsk(bank[i].title), S_kontakt)])
                 ELSE 0
      recruit == IF \E w \in RECRUIT_WORDS : Includes(ql, w)
                 THEN FirstIndex([i \in 1..Len(bank) |->
                        \/ Includes(MapLower(bank[i].title), S_rekrut)
                        \/ Includes(MapLower(bank[i].title), S_recruit)])
                 ELSE 0
  IN  IF contact # 0 THEN contact ELSE recruit

\* the loop of the fuzzy backup: the first entry of the least distance
RECURSIVE AskBestDist(_, _, _, _)
AskBestDist(bank, q, i, best) ==
  IF i > Len(bank) THEN best
  ELSE LET dd == levenshtein(q, bank[i].title)
       IN  AskBestDist(bank, q, i + 1,
             IF best.idx = 0 \/ dd < best.dist THEN [dist |-> dd, idx |-> i] ELSE best)

\* best.item && best.dist <= max(2, ceil(q.length * 0.35))
AskFuzzy(bank, q) ==
  LET best == AskBestDist(bank, q, 1, [dist |-> 0, idx |-> 0])
      maxDist == Max2(2, CeilPct35(Len(q)))
  IN  IF best.idx # 0 /\ best.dist <= maxDist THEN best.idx ELSE 0

\* ---- keyword handler (part_002, first handler) ---------------------------

KwExact(bank, qNorm) ==
  FirstIndex([i \in 1..Len(bank) |-> normalizeKw(bank[i].title) = qNorm])

KwPartial(bank, qNorm) ==
  FirstIndex([i \in 1..Len(bank) |->
    LET t == normalizeKw(bank[i].title) IN Includes(t, qNorm) \/ Includes(qNorm, t)])

\* the query's tokens: words longer than 3 characters, or listed keywords
KwTokens(qNorm) ==
  {w \in Range(SplitNonWord(qNorm)) : w # <<>> /\ (Len(w) > 3 \/ w \in KEYWORDS)}

KwScore(tokens, title) ==
  LET tWords == Range(SplitNonWord(normalizeKw(title)))
  IN  Cardinality({w \in tokens : w \in tWords})
      + Cardinality({g \in 1..Len(KEYWORD_GROUPS) :
          /\ \E k \in Range(KEYWORD_GROUPS[g]) : k \in tokens
          /\ \E k \in Range(KEYWORD_GROUPS[g]) : k \in tWords})

RECURSIVE KwBest_LastWins(_, _, _, _)
\* KwBest with `score >= best.score`: the last of the entries that tie wins
KwBest_LastWins(bank, tokens, i, best) ==
  IF i > Len(bank) THEN best
  ELSE LET sc == KwScore(tokens, bank[i].title)
       IN  KwBest_LastWins(bank, tokens, i + 1,
             IF best.idx = 0 \/ sc >= best.score THEN [score |-> sc, idx |-> i] ELSE best)

RECURSIVE KwBest(_, _, _, _)
KwBest(bank, tokens, i, best) ==
  IF i > Len(bank) THEN best
  ELSE LET sc == KwScore(tokens, bank[i].title)
       IN  KwBest(bank, tokens, i + 1,
             IF best.idx = 0 \/ sc > best.score THEN [score |-> sc, idx |-> i] ELSE best)

\* best && best.score >= 1
KwKeyword(bank, qNorm) ==
  LET best == KwBest(bank, KwTokens(qNorm), 1, [score |-> 0, idx |-> 0])
  IN  IF best.idx # 0 /\ best.score >= 1 THEN best.idx ELSE 0

\* ---- Dice handler (part_002, second handler) -----------------------------

\* find(equal) || find(title contains query) || find(query contains title,
\* the title at least 5 long)
DiceExact(bank, qNorm) ==
  LET tNorm == [i \in 1..Len(bank) |-> normalizeDice(bank[i].title)]
      eq == FirstIndex([i \in 1..Len(bank) |-> tNorm[i] = qNorm])
      inTitle == FirstIndex([i \in 1..Len(bank) |-> Includes(tNorm[i], qNorm)])
      inQuery == FirstIndex([i \in 1..Len(bank) |->
                   Includes(qNorm, tNorm[i]) /\ Len(tNorm[i]) >= MIN_CONTAINED_LEN])
  IN  IF eq # 0 THEN eq ELSE IF inTitle # 0 THEN inTitle ELSE inQuery

RECURSIVE DiceBest(_, _, _, _)
DiceBest(bank, q, i, best) ==
  IF i > Len(bank) THEN best
  ELSE LET sc == diceCoefficient(bank[i].title, q)
       IN  DiceBest(bank, q, i + 1,
             IF FracGT(sc, best.score) THEN [score |-> sc, idx |-> i] ELSE best)

\* best.item && best.score >= 0.58
DiceFuzzy(bank, q) ==
  LET best == DiceBest(bank, q, 1, [score |-> [n |-> 0, d |-> 1], idx |-> 0])
  IN  IF best.idx # 0 /\ FracGE(best.score, [n |-> DICE_MIN_SCORE, d |-> 100])
      THEN best.idx ELSE 0

\* ---- embedding handler (part_001, second handler) ------------------------

\* listAllQA: the texts are trimmed and a row needs a question
QAOf(rows) ==
  SelectSeq([i \in 1..Len(rows) |->
               [question |-> Trim(rows[i].title), answer |-> rows[i].answer]],
            LAMBDA x : x.question # <<>>)

RECURSIVE EmbBestCos(_, _, _, _)
EmbBestCos(items, qVec, i, best) ==
  IF i > Len(items) THEN best
  ELSE LET sc == cosine(qVec, items[i].vector)
       IN  EmbBestCos(items, qVec, i + 1,
             IF NumGT(sc, best.score) THEN [score |-> sc, idx |-> i] ELSE best)

EmbBest(items, qVec) ==
  EmbBestCos(items, qVec, 1, [score |-> [n |-> -1, d |-> 1], idx |-> 0])

\* the match is rejected when best.idx === -1 || best.score < MIN_SIMILARITY
\* (a comparison that is false for NaN)
EmbSemantic(items, qVec) ==
  LET best == EmbBest(items, qVec)
  IN  IF best.idx = 0 \/ (best.score.d # 0 /\ ~FracGE(best.score, FloorSquared(MIN_SIMILARITY)))
      THEN 0 ELSE best.idx

(***************************************************************************)
(* State                                                                   *)
(***************************************************************************)

VARIABLES
  store,    \* the rows of the external store
  useEmb,   \* whether OPENAI_API_KEY is set (ask.js)
  cache,    \* EMBED_CACHE of part_001; loaded is FALSE while items is null
  now,      \* Date.now()
  req,      \* the requests in flight, by process
  writes,   \* history: the (items, expiresAt) pairs refreshes have assigned
  call      \* a text helper under application: its arguments and its results

vars == <<store, useEmb, cache, now, req, writes, call>>

Procs == 1..NumProcs

NoRes == [status |-> 0, answer |-> "", source |-> "pending"]

Idle ==
  [handler |-> "none", pc |-> "idle", q |-> <<>>, bank |-> <<>>, vecs |-> <<>>,
   qe |-> <<>>, trace |-> <<>>, fetches |-> 0, embeds |-> 0, embedFailed |-> FALSE,
   t0 |-> 0, stale |-> FALSE, res |-> NoRes]

EmptyCache == [loaded |-> FALSE, items |-> <<>>, expiresAt |-> 0]

\* no helper is under application
NoCall ==
  [fn |-> "none", a |-> <<>>, b |-> <<>>, n |-> 0, prev |-> <<>>, out |-> <<>>,
   score |-> [n |-> 0, d |-> 1]]

\* a stage that was consulted, with the index it accepted (0: it rejected)
Consulted(stage, idx) == [stage |-> stage, hit |-> idx]

Answered(answer, source) == [status |-> 200, answer |-> answer, source |-> source]

Failed(status) == [status |-> status, answer |-> "", source |-> "error"]

Finish(r, trace, res) == [r EXCEPT !.pc = "done", !.trace = trace, !.res = res]

\* what leaves everything but the request of p alone
OnlyReq(p, r) ==
  /\ req' = [req EXCEPT ![p] = r]
  /\ UNCHANGED <<store, useEmb, cache, now, writes, call>>

(***************************************************************************)
(* ask.js handler                                                          *)
(***************************************************************************)

\* AskFallback answering with the nearest entry whatever its distance
AskFallback_NearestAnyway(r, trace) ==
  LET qNorm == normalizeAsk(r.q)
      kw == AskKeyword(r.bank, qNorm)
      fz == AskBestDist(r.bank, r.q, 1, [dist |-> 0, idx |-> 0]).idx
      t1 == Append(trace, Consulted("keyword", kw))
      t2 == Append(t1, Consulted("fuzzy", fz))
  IN  IF kw # 0 THEN Finish(r, t1, Answered(r.bank[kw].answer, "keyword"))
      ELSE IF fz # 0 THEN Finish(r, t2, Answered(r.bank[fz].answer, "fuzzy"))
      ELSE Finish(r, t2, Answered(NOT_FOUND, "none"))

\* the keyword fallback, the fuzzy backup and the final answer
AskFallback(r, trace) ==
  LET qNorm == normalizeAsk(r.q)
      kw == AskKeyword(r.bank, qNorm)
      fz == AskFuzzy(r.bank, r.q)
      t1 == Append(trace, Consulted("keyword", kw))
      t2 == Append(t1, Consulted("fuzzy", fz))
  IN  IF kw # 0 THEN Finish(r, t1, Answered(r.bank[kw].answer, "keyword"))
      ELSE IF fz # 0 THEN Finish(r, t2, Answered(r.bank[fz].answer, "fuzzy"))
      ELSE Finish(r, t2, Answered(NOT_FOUND, "none"))

\* AskAfterRows without the return after a quick match
AskAfterRows_NoReturn(r, emb) ==
  LET quick == AskQuick(r.bank, normalizeAsk(r.q))
      t1 == <<Consulted("exact", quick)>>
  IN  IF emb THEN [r EXCEPT !.pc = "embedBank", !.trace = t1]
      ELSE AskFallback(r, t1)

\* from the quick match to the first await of an embedding
AskAfterRows(r, emb) ==
  LET quick == AskQuick(r.bank, normalizeAsk(r.q))
      t1 == <<Consulted("exact", quick)>>
  IN  IF quick # 0 THEN Finish(r, t1, Answered(r.bank[quick].answer, "exact"))
      ELSE IF emb THEN [r EXCEPT !.pc = "embedBank", !.trace = t1]
      ELSE AskFallback(r, t1)

\* from the query's embedding to the answer
AskAfterEmbed(r, qe) ==
  LET sem == AskSemantic(r.vecs, qe)
      t1 == Append(r.trace, Consulted("semantic", sem))
  IN  IF sem # 0 THEN Finish(r, t1, Answered(r.bank[sem].answer, "semantic"))
      ELSE AskFallback(r, t1)

\* the request arrives: q is read, and a missing q is refused (emb: whether the
\* deployment this request runs in has OPENAI_API_KEY set)
AskReceive(p, q, emb) ==
  /\ req[p].pc = "idle"
  /\ LET r == [req[p] EXCEPT !.handler = "ask", !.q = q]
     IN  req' = [req EXCEPT ![p] = IF q = <<>> THEN Finish(r, <<>>, Failed(400))
                                   ELSE [r EXCEPT !.pc = "getRows"]]
  /\ useEmb' = emb
  /\ UNCHANGED <<store, cache, now, writes, call>>

\* getRows returns, or throws
AskGetRowsReturn(p) ==
  /\ req[p].handler = "ask"
  /\ req[p].pc = "getRows"
  /\ \/ OnlyReq(p, Finish(req[p], <<>>, Failed(500)))
     \/ LET r == [req[p] EXCEPT !.bank = BankOf(store), !.fetches = @ + 1]
        IN  OnlyReq(p, IF r.bank = <<>> THEN Finish(r, <<>>, Failed(500))
                       ELSE AskAfterRows(r, useEmb))

\* one embed(it.title) of the loop over the bank returns, or throws
AskEmbedBankReturn(p) ==
  /\ req[p].handler = "ask"
  /\ req[p].pc = "embedBank"
  /\ \/ OnlyReq(p, Finish([req[p] EXCEPT !.embeds = @ + 1, !.embedFailed = TRUE],
                          req[p].trace, Failed(500)))
     \/ \E v \in ItemVectors :
          LET r == [req[p] EXCEPT !.embeds = @ + 1, !.vecs = Append(@, v)]
          IN  OnlyReq(p, IF Len(r.vecs) = Len(r.bank)
                         THEN [r EXCEPT !.pc = "embedQuery"] ELSE r)

\* embed(q) returns, or throws
AskEmbedQueryReturn(p) ==
  /\ req[p].handler = "ask"
  /\ req[p].pc = "embedQuery"
  /\ \/ OnlyReq(p, Finish([req[p] EXCEPT !.embeds = @ + 1, !.embedFailed = TRUE],
                          req[p].trace, Failed(500)))
     \/ \E qe \in QueryVectors :
          OnlyReq(p, AskAfterEmbed([req[p] EXCEPT !.embeds = @ + 1, !.qe = qe], qe))

(***************************************************************************)
(* Keyword handler (part_002, first handler)                               *)
(***************************************************************************)

KwAfterRows(r) ==
  LET qNorm == normalizeKw(r.q)
      exact == KwExact(r.bank, qNorm)
      partial == KwPartial(r.bank, qNorm)
      kw == KwKeyword(r.bank, qNorm)
      hit == IF exact # 0 THEN exact ELSE partial
      t1 == <<Consulted("exact", hit)>>
      t2 == Append(t1, Consulted("keyword", kw))
  IN  IF hit # 0 THEN Finish(r, t1, Answered(r.bank[hit].answer, "exact"))
      ELSE IF kw # 0 THEN Finish(r, t2, Answered(r.bank[kw].answer, "keyword"))
      ELSE Finish(r, t2, Answered(NOT_FOUND, "none"))

KwReceive(p, q) ==
  /\ req[p].pc = "idle"
  /\ LET r == [req[p] EXCEPT !.handler = "kw", !.q = q]
     IN  OnlyReq(p, IF q = <<>> THEN Finish(r, <<>>, Failed(400))
                    ELSE [r EXCEPT !.pc = "getRows"])

\* the paging loop over the database returns all rows, or throws
KwRowsReturn(p) ==
  /\ req[p].handler = "kw"
  /\ req[p].pc = "getRows"
  /\ \/ OnlyReq(p, Finish(req[p], <<>>, Failed(500)))
     \/ OnlyReq(p, KwAfterRows([req[p] EXCEPT !.bank = BankOf(store), !.fetches = @ + 1]))

(***************************************************************************)
(* Dice handler (part_002, second handler)                                 *)
(***************************************************************************)

DiceAfterRows(r) ==
  LET qNorm == normalizeDice(r.q)
      hit == DiceExact(r.bank, qNorm)
      fz == DiceFuzzy(r.bank, r.q)
      t1 == <<Consulted("exact", hit)>>
      t2 == Append(t1, Consulted("fuzzy", fz))
  IN  IF hit # 0 THEN Finish(r, t1, Answered(r.bank[hit].answer, "exact"))
      ELSE IF fz # 0 THEN Finish(r, t2, Answered(r.bank[fz].answer, "fuzzy"))
      ELSE Finish(r, t2, Answered(NOT_FOUND, "none"))

DiceReceive(p, q) ==
  /\ req[p].pc = "idle"
  /\ LET r == [req[p] EXCEPT !.handler = "dice", !.q = q]
     IN  OnlyReq(p, IF q = <<>> THEN Finish(r, <<>>, Failed(400))
                    ELSE [r EXCEPT !.pc = "getRows"])

DiceRowsReturn(p) ==
  /\ req[p].handler = "dice"
  /\ req[p].pc = "getRows"
  /\ \/ OnlyReq(p, Finish(req[p], <<>>, Failed(500)))
     \/ OnlyReq(p, DiceAfterRows([req[p] EXCEPT !.bank = BankOf(store), !.fetches = @ + 1]))

(***************************************************************************)
(* Embedding handler with the shared cache (part_001, second handler)      *)
(***************************************************************************)

\* CacheFresh with expiresAt >= now
CacheFresh_Inclusive(c, t) == c.loaded /\ c.expiresAt >= t

\* EMBED_CACHE.items && EMBED_CACHE.expiresAt > now
CacheFresh(c, t) == c.loaded /\ c.expiresAt > t

\* CacheAssign with the second assignment put off to a later turn
CacheAssign_Torn(c, items, t0) == [c EXCEPT !.loaded = TRUE, !.items = items]

\* CacheAssign behind a guard that keeps the pair with the later expiry time
CacheAssign_KeepLatest(c, items, t0) ==
  IF c.loaded /\ c.expiresAt > t0 + CACHE_TTL_MS THEN c
  ELSE [loaded |-> TRUE, items |-> items, expiresAt |-> t0 + CACHE_TTL_MS]

\* EMBED_CACHE.items = items; EMBED_CACHE.expiresAt = now + CACHE_TTL_MS, the
\* two assignments with no await between them
CacheAssign(c, items, t0) ==
  [loaded |-> TRUE, items |-> items, expiresAt |-> t0 + CACHE_TTL_MS]

\* qa.map((x, i) => ({question, answer, vector: vectors[i]}))
ItemsOf(qa, vectors) ==
  [i \in 1..Len(qa) |->
     [question |-> qa[i].question, answer |-> qa[i].answer, vector |-> vectors[i]]]

\* the handler once getEmbeddedQA has returned: an empty bank is answered at
\* once, otherwise the query is embedded
EmbAfterItems(r, items) ==
  IF Len(items) = 0
  THEN Finish([r EXCEPT !.bank = items], r.trace, Answered(NO_QA_YET, "none"))
  ELSE [r EXCEPT !.bank = items, !.pc = "embedQuery"]

\* the best match, or the no-confident-match answer
EmbAfterEmbed(r, qVec) ==
  LET sem == EmbSemantic(r.bank, qVec)
      t1 == Append(r.trace, Consulted("semantic", sem))
  IN  IF sem = 0 THEN Finish(r, t1, Answered(NO_CONFIDENT_MATCH, "none"))
      ELSE Finish(r, t1,
             Answered(IF r.bank[sem].answer = "" THEN BLANK ELSE r.bank[sem].answer,
                      "semantic"))

\* the request arrives: q is trimmed and an empty q refused; getEmbeddedQA
\* reads the clock and returns the cached items while they are fresh
EmbReceive(p, q) ==
  /\ req[p].pc = "idle"
  /\ LET r == [req[p] EXCEPT !.handler = "emb", !.q = Trim(q), !.t0 = now]
     IN  OnlyReq(p, IF r.q = <<>> THEN Finish(r, <<>>, Failed(400))
                    ELSE IF CacheFresh(cache, now) THEN EmbAfterItems(r, cache.items)
                    ELSE [r EXCEPT !.pc = "listAllQA", !.stale = TRUE])

\* listAllQA returns, or throws
EmbListReturn(p) ==
  /\ req[p].handler = "emb"
  /\ req[p].pc = "listAllQA"
  /\ \/ OnlyReq(p, Finish(req[p], <<>>, Failed(500)))
     \/ OnlyReq(p, [req[p] EXCEPT !.bank = QAOf(store), !.fetches = @ + 1,
                                  !.pc = "embedTexts"])

\* embedTexts(questions) returns one vector for each question, or throws; the
\* cache is assigned and the handler goes on
EmbTextsReturn(p, VS) ==
  /\ req[p].handler = "emb"
  /\ req[p].pc = "embedTexts"
  /\ \/ OnlyReq(p, Finish([req[p] EXCEPT !.embeds = @ + 1, !.embedFailed = TRUE],
                          <<>>, Failed(500)))
     \/ \E vectors \in [1..Len(req[p].bank) -> VS] :
          LET r == [req[p] EXCEPT !.embeds = @ + 1]
              items == ItemsOf(r.bank, vectors)
          IN  /\ cache' = CacheAssign(cache, items, r.t0)
              /\ writes' = writes \cup
                   {[items |-> items, expiresAt |-> r.t0 + CACHE_TTL_MS]}
              /\ req' = [req EXCEPT ![p] = EmbAfterItems(r, items)]
              /\ UNCHANGED <<store, useEmb, now, call>>

\* embedTexts([q]) returns, or throws
EmbQueryReturn(p, QV) ==
  /\ req[p].handler = "emb"
  /\ req[p].pc = "embedQuery"
  /\ \/ OnlyReq(p, Finish([req[p] EXCEPT !.embeds = @ + 1, !.embedFailed = TRUE],
                          req[p].trace, Failed(500)))
     \/ \E qVec \in QV :
          OnlyReq(p, EmbAfterEmbed([req[p] EXCEPT !.embeds = @ + 1, !.qe = qVec], qVec))

\* time passes, half a cache lifetime at a time
Tick ==
  /\ now < MaxTicks * (CACHE_TTL_MS \div 2)
  /\ now' = now + CACHE_TTL_MS \div 2
  /\ UNCHANGED <<store, useEmb, cache, req, writes, call>>

(***************************************************************************)
(* Specifications                                                          *)
(***************************************************************************)

\* one request at a time through any of the four handlers
InitPipe ==
  /\ store \in Stores
  /\ useEmb = FALSE
  /\ cache = EmptyCache
  /\ now = 0
  /\ req = [p \in Procs |-> Idle]
  /\ writes = {}
  /\ call = NoCall

NextPipe ==
  \/ \E q \in Queries, emb \in BOOLEAN : AskReceive(1, q, emb)
  \/ AskGetRowsReturn(1)
  \/ AskEmbedBankReturn(1)
  \/ AskEmbedQueryReturn(1)
  \/ \E q \in Queries : KwReceive(1, q)
  \/ KwRowsReturn(1)
  \/ \E q \in Queries : DiceReceive(1, q)
  \/ DiceRowsReturn(1)
  \/ \E q \in Queries : EmbReceive(1, q)
  \/ EmbListReturn(1)
  \/ EmbTextsReturn(1, ItemVectors)
  \/ EmbQueryReturn(1, QueryVectors)

SpecPipe == InitPipe /\ [][NextPipe]_vars

\* the store the concurrent requests read: it holds a page without a question at
\* first, and an editor may replace that by two pages at any time
CacheRows1 == <<[title |-> <<" ">>, answer |-> "A5"]>>

CacheRows2 ==
  <<[title |-> Q_Kontakt_os, answer |-> "A1"], [title |-> Q_kontakt, answer |-> ""]>>

CacheStores == <<CacheRows1, CacheRows2>>

CacheQueries == {Q_kontakt}

CacheVectors == {V_unit}

EditStore ==
  /\ \E i \in 1..(Len(CacheStores) - 1) :
       store = CacheStores[i] /\ store' = CacheStores[i + 1]
  /\ UNCHANGED <<useEmb, cache, now, req, writes, call>>

InitCache ==
  /\ store = CacheStores[1]
  /\ useEmb = TRUE
  /\ cache = EmptyCache
  /\ now = 0
  /\ req = [p \in Procs |-> Idle]
  /\ writes = {}
  /\ call = NoCall

NextCache ==
  \/ \E p \in Procs, q \in CacheQueries : EmbReceive(p, q)
  \/ \E p \in Procs : EmbListReturn(p)
  \/ \E p \in Procs : EmbTextsReturn(p, CacheVectors)
  \/ \E p \in Procs : EmbQueryReturn(p, CacheVectors)
  \/ Tick
  \/ EditStore

SpecCache == InitCache /\ [][NextCache]_vars

\* the text helpers applied to texts of their own: the normalizers are applied
\* to a text and then to their own result, diceCoefficient to a pair of texts
MaxLen == 4

MaxDiceLen == 3

MaxApply == 2

NormChars == {"A", " ", "TAB", "U+00A0", "U+0301", "^", "U+00C6", "U+00E5"}

DiceChars == {"a", "b", "?", " "}

NormTexts == SeqsUpTo(NormChars, MaxLen)

DiceTexts == SeqsUpTo(DiceChars, MaxDiceLen)

\* normalize of the keyword handler, applied to the text or to its last result
NormalizeKwCall ==
  /\ call.fn \in {"none", "normalizeKw"}
  /\ call.n < MaxApply
  /\ call' = [call EXCEPT !.fn = "normalizeKw", !.n = @ + 1, !.prev = call.out,
                          !.out = normalizeKw(IF call.n = 0 THEN call.a ELSE call.out)]
  /\ UNCHANGED <<store, useEmb, cache, now, req, writes>>

\* normalize of ask.js, applied to the text or to its last result
NormalizeAskCall ==
  /\ call.fn \in {"none", "normalizeAsk"}
  /\ call.n < MaxApply
  /\ call' = [call EXCEPT !.fn = "normalizeAsk", !.n = @ + 1, !.prev = call.out,
                          !.out = normalizeAsk(IF call.n = 0 THEN call.a ELSE call.out)]
  /\ UNCHANGED <<store, useEmb, cache, now, req, writes>>

\* diceCoefficient(a, b)
DiceCoefficientCall ==
  /\ call.fn = "none"
  /\ call' = [call EXCEPT !.fn = "diceCoefficient", !.n = 1,
                          !.score = diceCoefficient(call.a, call.b)]
  /\ UNCHANGED <<store, useEmb, cache, now, req, writes>>

InitText ==
  /\ store = <<>>
  /\ useEmb = FALSE
  /\ cache = EmptyCache
  /\ now = 0
  /\ req = [p \in Procs |-> Idle]
  /\ writes = {}
  /\ \/ \E x \in NormTexts : call = [NoCall EXCEPT !.a = x]
     \/ \E x \in DiceTexts, y \in DiceTexts : call = [NoCall EXCEPT !.a = x, !.b = y]

NextText ==
  \/ NormalizeKwCall
  \/ NormalizeAskCall
  \/ DiceCoefficientCall

SpecText == InitText /\ [][NextText]_vars

(***************************************************************************)
(* Properties                                                              *)
(***************************************************************************)

Done(p) == req[p].pc = "done"

\* the stages of a trace, in the order they were consulted
StagesOf(trace) == [i \in 1..Len(trace) |-> trace[i].stage]

\* the position of a stage in an order of stages (0: not in it)
PosIn(order, stage) ==
  IF \E i \in 1..Len(order) : order[i] = stage
  THEN CHOOSE i \in 1..Len(order) : order[i] = stage ELSE 0

\* the trace consults stages of the order only, each at most once, in that order
FollowsOrder(trace, order) ==
  /\ \A i \in 1..Len(trace) : PosIn(order, trace[i].stage) # 0
  /\ \A i, j \in 1..Len(trace) :
       i < j => PosIn(order, trace[i].stage) < PosIn(order, trace[j].stage)

\* every stage of the trace but the last rejected
EarlierRejected(trace) == \A i \in 1..(Len(trace) - 1) : trace[i].hit = 0

WasConsulted(trace, stage) == \E i \in 1..Len(trace) : trace[i].stage = stage

ClaimedOrder == <<"exact", "keyword", "semantic", "fuzzy">>

AskOrder == <<"exact", "semantic", "keyword", "fuzzy">>

C2_ExactMatchProperty ==
  \A p \in Procs :
    (Done(p) /\ req[p].handler \in {"ask", "kw", "dice"}) =>
      \A i \in 1..Len(req[p].bank) :
        req[p].bank[i].title = req[p].q =>
          /\ req[p].res.source = "exact"
          /\ req[p].res.answer = req[p].bank[i].answer

\* C3, as claimed: a query that is empty after trimming is refused with a
\* client error, before the bank is fetched or any stage runs.
C3_BlankQueryRefused ==
  \A p \in Procs :
    (Done(p) /\ Trim(req[p].q) = <<>>) =>
      /\ req[p].res.status = 400
      /\ req[p].fetches = 0
      /\ req[p].trace = <<>>

\* the normalizer of a handler
NormOf(h, s) ==
  CASE h = "ask" -> normalizeAsk(s)
    [] h = "kw" -> normalizeKw(s)
    [] OTHER -> normalizeDice(s)

\* C4, as claimed: when the exact stage accepts an entry by containment, the
\* contained string is non-empty and at least the guard length long.
C4_ContainmentGuard ==
  \A p \in Procs :
    (Done(p) /\ req[p].handler \in {"ask", "kw", "dice"} /\ req[p].res.source = "exact") =>
      LET qNorm == NormOf(req[p].handler, req[p].q)
          tNorm == NormOf(req[p].handler, req[p].bank[req[p].trace[1].hit].title)
      IN  tNorm # qNorm => Min2(Len(qNorm), Len(tNorm)) >= MIN_CONTAINED_LEN

\* the entry a semantic stage must accept: the best one when its score is at
\* least the floor (in hundredths), none otherwise
AtOrAboveFloor(best, floorPct) ==
  IF best.idx # 0 /\ best.score.n * 10000 >= floorPct * floorPct * best.score.d
  THEN best.idx ELSE 0

\* the place of the semantic stage in a trace that consulted it
SemanticAt(trace) == CHOOSE i \in 1..Len(trace) : trace[i].stage = "semantic"

\* what the semantic stage of a request decided, against the floor of its handler
SemanticDecision(r) ==
  r.trace[SemanticAt(r.trace)].hit =
    (IF r.handler = "ask"
     THEN AtOrAboveFloor(AskBest(r.vecs, r.qe), ASK_MIN_SIMILARITY)
     ELSE AtOrAboveFloor(EmbBest(r.bank, r.qe), MIN_SIMILARITY))

C6_EmbedFailureDegrades ==
  \A p \in Procs :
    (Done(p) /\ req[p].embedFailed) =>
      /\ req[p].res.status = 200
      /\ req[p].handler = "ask" => WasConsulted(req[p].trace, "fuzzy")
                                    \/ req[p].res.source = "keyword"

\* no stage of the handler of r accepts an entry for its query
NoStageAccepts(r) ==
  CASE r.handler = "ask" ->
         /\ AskQuick(r.bank, normalizeAsk(r.q)) = 0
         /\ useEmb => AskSemantic(r.vecs, r.qe) = 0
         /\ AskKeyword(r.bank, normalizeAsk(r.q)) = 0
         /\ AskFuzzy(r.bank, r.q) = 0
    [] r.handler = "kw" ->
         /\ KwExact(r.bank, normalizeKw(r.q)) = 0
         /\ KwPartial(r.bank, normalizeKw(r.q)) = 0
         /\ KwKeyword(r.bank, normalizeKw(r.q)) = 0
    [] OTHER ->
         /\ DiceExact(r.bank, normalizeDice(r.q)) = 0
         /\ DiceFuzzy(r.bank, r.q) = 0

EntersGetEmbeddedQA(p) ==
  /\ req[p].pc = "idle"
  /\ req'[p].handler = "emb"
  /\ req'[p].q # <<>>

\* the cache is unset (items is null) or its expiry time is not after the clock
StaleNow == ~cache.loaded \/ cache.expiresAt <= now

\* the request of p has its bank and has gone on to the matching
Matching(p) ==
  /\ req[p].handler = "emb"
  /\ req[p].pc = "embedQuery" \/ req[p].trace # <<>>

\* C8: getEmbeddedQA goes to the fetch and embedding collaborators exactly when
\* the cache is unset or its expiry time is not after the current time; a call
\* made while the cache is fresh makes no collaborator call, leaves the cache
\* unchanged and returns the cached items; a request that found the cache stale
\* matches only after its own fetch and embedding have reloaded the cache.
C8_RefreshWhenStale ==
  /\ [][\A p \in Procs :
          EntersGetEmbeddedQA(p) =>
            /\ req'[p].stale <=> StaleNow
            /\ IF StaleNow THEN req'[p].pc = "listAllQA"
               ELSE /\ req'[p].pc # "listAllQA"
                    /\ cache' = cache
                    /\ req'[p].bank = cache.items
                    /\ req'[p].fetches = 0 /\ req'[p].embeds = 0]_vars
  /\ [](\A p \in Procs :
          /\ (req[p].handler = "emb" /\ req[p].fetches > 0) => req[p].stale
          /\ (Matching(p) /\ req[p].stale) =>
               /\ req[p].fetches = 1 /\ req[p].embeds >= 1
               /\ [items |-> req[p].bank, expiresAt |-> req[p].t0 + CACHE_TTL_MS]
                    \in writes)

\* C8 witness: a request found the cache fresh at a later time than the
\* refresh, and is matching against the cached items with no collaborator call
C8_Witness ==
  \E p \in Procs :
    /\ Matching(p) /\ ~req[p].stale
    /\ req[p].t0 > 0
    /\ req[p].fetches = 0
    /\ req[p].bank = cache.items

\* C9: the shared cache is its initial empty state or the complete (items,
\* expiresAt) pair assigned by one successful refresh, every item with its
\* vector; every reader's bank is the items of one such refresh; a step in
\* which a request fails leaves the cache as it was.
C9_AtomicSwap ==
  /\ [](/\ \/ cache = EmptyCache
           \/ /\ cache.loaded
              /\ [items |-> cache.items, expiresAt |-> cache.expiresAt] \in writes
        /\ \A i \in 1..Len(cache.items) : Len(cache.items[i].vector) > 0
        /\ \A p \in Procs :
             Matching(p) => \E w \in writes : w.items = req[p].bank)
  /\ [][\A p \in Procs :
          (req[p].pc # "done" /\ req'[p].pc = "done" /\ req'[p].res.status = 500)
            => cache' = cache]_vars

\* C9 witness: two refreshes overlapped and built different banks with
\* different expiry times; the cache is the pair of one of them
C9_Witness ==
  /\ \E v, w \in writes : v.items # w.items /\ v.expiresAt # w.expiresAt
  /\ \E p \in Procs : req[p].stale /\ Matching(p)
  /\ cache.loaded

\* C10, as claimed: every entry of every loaded bank has a non-empty question
\* and a non-empty answer, so that no answer is the blank placeholder.
C10_NonEmptyEntries ==
  /\ \A i \in 1..Len(cache.items) :
       cache.items[i].question # <<>> /\ cache.items[i].answer # ""
  /\ \A p \in Procs :
       /\ req[p].handler \in {"ask", "kw", "dice"} =>
            \A i \in 1..Len(req[p].bank) :
              req[p].bank[i].title # <<>> /\ req[p].bank[i].answer # ""
       /\ req[p].handler = "emb" =>
            \A i \in 1..Len(req[p].bank) :
              req[p].bank[i].question # <<>> /\ req[p].bank[i].answer # ""
       /\ req[p].res.answer # BLANK

\* ---- C11 ------------------------------------------------------------------

IsLowerCase(s) == \A i \in 1..Len(s) : toLowerCase(s[i]) = s[i]

\* every run of whitespace is one space
WhiteCollapsed(s) ==
  \A i \in 1..Len(s) :
    IsWhite(s[i]) => s[i] = " " /\ (i < Len(s) => ~IsWhite(s[i + 1]))

Trimmed(s) == s = <<>> \/ (~IsWhite(s[1]) /\ ~IsWhite(s[Len(s)]))

IsNormalize(fn) == fn \in {"normalizeKw", "normalizeAsk"}

\* C11: normalize is idempotent, normalize(normalize(x)) = normalize(x) for every
\* text x, and its result is lower-case, has every run of whitespace collapsed
\* to one space and has no leading or trailing whitespace.
C11_NormalizeIdempotent ==
  IsNormalize(call.fn) =>
    /\ call.n >= 2 => call.out = call.prev
    /\ call.n >= 1 =>
         IsLowerCase(call.out) /\ WhiteCollapsed(call.out) /\ Trimmed(call.out)

\* ---- C12 ------------------------------------------------------------------

FracEq(x, y) == x.n * y.d = y.n * x.d

DiceSymmetric == FracEq(call.score, diceCoefficient(call.b, call.a))

DiceInUnitRange == 0 <= call.score.n /\ call.score.n <= call.score.d

\* C12: diceCoefficient(a, b) = diceCoefficient(b, a) for every pair of texts,
\* diceCoefficient(a, a) = 1 for every non-empty text a, a text of only
\* punctuation or whitespace included, and the value lies in [0, 1].
C12_DiceSymmetricUnit ==
  call.fn = "diceCoefficient" =>
    /\ DiceSymmetric
    /\ (call.a = call.b /\ call.a # <<>>) => FracEq(call.score, [n |-> 1, d |-> 1])
    /\ DiceInUnitRange

\* ---- C13 ------------------------------------------------------------------

\* the words of a text: its maximal runs of word characters
WordsOf(s) ==
  {SubSeq(s, i, j) : <<i, j>> \in
     {ij \in (1..Len(s)) \X (1..Len(s)) :
        /\ ij[1] <= ij[2]
        /\ \A k \in ij[1]..ij[2] : IsWord(s[k])
        /\ (ij[1] = 1 \/ ~IsWord(s[ij[1] - 1]))
        /\ (ij[2] = Len(s) \/ ~IsWord(s[ij[2] + 1]))}}

IsSynonym(w) == \E g \in 1..Len(KEYWORD_GROUPS) : w \in Range(KEYWORD_GROUPS[g])

ClaimedTokens(q) == {w \in WordsOf(normalizeKw(q)) : Len(w) > 3 \/ IsSynonym(w)}

\* the overlapping tokens, plus one for every synonym group with a member on
\* both sides
ClaimedScore(q, title) ==
  LET tokens == ClaimedTokens(q)
      words == WordsOf(normalizeKw(title))
  IN  Cardinality(tokens \cap words)
      + Cardinality({g \in 1..Len(KEYWORD_GROUPS) :
          /\ Range(KEYWORD_GROUPS[g]) \cap tokens # {}
          /\ Range(KEYWORD_GROUPS[g]) \cap words # {}})

ClaimedScores(r) == [i \in 1..Len(r.bank) |-> ClaimedScore(r.q, r.bank[i].title)]

\* a request of the keyword handler that went on to its keyword stage
KeywordStageRan(p) ==
  req[p].handler = "kw" /\ Done(p) /\ Len(req[p].trace) = 2

\* C13: in the keyword stage an entry scores the number of query tokens (words
\* longer than 3 characters, or listed synonyms) that are words of its
\* normalized question, plus one for each synonym group with a member among the
\* tokens and among the words; the stage accepts the first entry in bank order
\* of those with the highest score, and only when that score is at least 1,
\* otherwise it yields no candidate.
C13_KeywordScoring ==
  \A p \in Procs :
    KeywordStageRan(p) =>
      LET r == req[p]
          hit == r.trace[2].hit
          sc == ClaimedScores(r)
      IN  IF \E i \in 1..Len(r.bank) : sc[i] >= 1
          THEN /\ hit \in 1..Len(r.bank)
               /\ \A j \in 1..Len(r.bank) : sc[j] <= sc[hit]
               /\ \A j \in 1..(hit - 1) : sc[j] < sc[hit]
               /\ r.res = Answered(r.bank[hit].answer, "keyword")
          ELSE /\ hit = 0
               /\ r.res = Answered(NOT_FOUND, "none")

\* two entries with different answers tie at the highest score, and the first
\* is the one answered
C13_Witness ==
  \E p \in Procs :
    /\ KeywordStageRan(p)
    /\ Len(req[p].bank) = 2
    /\ req[p].bank[1].answer # req[p].bank[2].answer
    /\ ClaimedScores(req[p])[1] = ClaimedScores(req[p])[2]
    /\ ClaimedScores(req[p])[1] >= 2
    /\ req[p].res = Answered(req[p].bank[1].answer, "keyword")

\* ---- C14 ------------------------------------------------------------------

\* the step in which the refresh of p assigns the cache
RefreshAssigns(p) ==
  /\ req[p].handler = "emb"
  /\ req[p].pc = "embedTexts"
  /\ req'[p].pc # "embedTexts"
  /\ ~req'[p].embedFailed

\* the (items, expiresAt) pair the refresh of p built
OwnPair(p) == [items |-> req[p].bank, expiresAt |-> req[p].t0 + CACHE_TTL_MS]

\* C14: there is no single-flight guard. A request that finds the cache stale
\* starts a refresh of its own whether or not another one is in flight, makes
\* its own fetch and embedding calls and resolves against the bank its own
\* refresh built; every assignment replaces the cache by the assigning refresh's
\* items and expiry time, whatever the cache held, and nothing else changes the
\* cache, so that the cache is the pair of the refresh that assigned last.
C14_LastWriterWins ==
  /\ [][\A p \in Procs :
          /\ (EntersGetEmbeddedQA(p) /\ StaleNow) => req'[p].pc = "listAllQA"
          /\ RefreshAssigns(p) =>
               cache' = [loaded |-> TRUE, items |-> req'[p].bank,
                         expiresAt |-> req[p].t0 + CACHE_TTL_MS]]_vars
  /\ [][cache' # cache => \E p \in Procs : RefreshAssigns(p)]_vars
  /\ [](\A p \in Procs :
          (Matching(p) /\ req[p].stale) =>
            /\ req[p].fetches = 1 /\ req[p].embeds >= 1
            /\ OwnPair(p) \in writes
            /\ (Done(p) /\ req[p].trace # <<>> /\ req[p].trace[1].hit # 0) =>
                 req[p].res.answer \in
                   {req[p].bank[req[p].trace[1].hit].answer, BLANK})

\* C14 witness: two requests found the cache stale, the one that started first
\* assigned last; both have answered from different banks and the cache holds
\* the pair of the first starter, with the earlier expiry time
C14_Witness ==
  \E p \in Procs, q \in Procs :
    /\ p # q
    /\ req[p].handler = "emb" /\ req[q].handler = "emb"
    /\ req[p].stale /\ req[q].stale
    /\ Done(p) /\ Done(q)
    /\ req[p].res.status = 200 /\ req[q].res.status = 200
    /\ req[p].t0 < req[q].t0
    /\ req[p].bank # req[q].bank
    /\ OwnPair(q) \in writes
    /\ cache = [loaded |-> TRUE, items |-> req[p].bank,
                expiresAt |-> req[p].t0 + CACHE_TTL_MS]

====
